---- MODULE Spec2Model ----
(***************************************************************************)
(* Model of the execution engine of the web based code editor:             *)
(* CodeExecutor.execute / CodeExecutor._run_code (utils/code_executor.py)  *)
(* as called by the /api/execute request handler (app.py), with several    *)
(* request threads sharing the one CodeExecutor and the one interpreter    *)
(* (process-wide sys.stdout / sys.stderr, one temporary directory).        *)
(*                                                                         *)
(* Text is a sequence of tokens.  A token records who wrote it, so that    *)
(* the origin of every character of a result can be traced:                *)
(*   by = "child.stdout" / "child.stderr"  written by the child of run of  *)
(*   by = "print"                          print() of request thread of    *)
(*   any other by                          a string literal of the code    *)
(* Python's Optional[str] is a sequence of at most one text: None is <<>>. *)
(***************************************************************************)
EXTENDS Integers, Sequences, FiniteSets, TLC

\* ------------------------------------------------------------------ bounds
NumTempNames == 2    \* names the temporary directory can hand out
MaxChildOut == 2     \* most characters a child writes to one stream
MaxBuffered == 1     \* most in-process characters one redirect buffer receives
\* self.max_output_size, scaled down from 10000 so that a child can exceed it
max_output_size == 1
MaxCodeLen == 2      \* longest source handed to validate_code
MaxPathLen == 2      \* most components of a path handed to the file manager

\* the request threads of the server: two, so that runs can overlap
Threads == {1, 2}
TempNames == 1..NumTempNames
NoPath == 0

\* ------------------------------------------------------------------- text
Lit(s) == << [by |-> s, of |-> 0, n |-> 0] >>
None == << >>
Some(text) == << text >>

\* the first n characters of s: s[:n]
Prefix(s, n) == SubSeq(s, 1, IF Len(s) < n THEN Len(s) ELSE n)

\* the text a child of run t has written to one of its pipes after n characters
ChildText(t, stream, n) == [k \in 1..n |-> [by |-> stream, of |-> t, n |-> k]]

PrintText(u) == << [by |-> "print", of |-> u, n |-> 0] >>

OutMarker == Lit("\n... (output truncated)")
ErrMarker == Lit("\n... (error truncated)")

\* source characters: " " whitespace, "p" a letter, "(" an opening parenthesis,
\* "S" a lone surrogate (a str character UTF-8 cannot encode)
CodeChars == {" ", "p", "(", "S"}
\* the sources submitted: none, blank ones, a runnable one, one that is no
\* valid Python, one that cannot be encoded
Codes == { << >>, << " " >>, << " ", " " >>, << "p" >>, << "(" >>, << "S" >> }

IsSpace(ch) == ch = " "

RECURSIVE LStrip(_)
LStrip(s) == IF s # << >> /\ IsSpace(Head(s)) THEN LStrip(Tail(s)) ELSE s

RECURSIVE RStrip(_)
RStrip(s) ==
    IF s # << >> /\ IsSpace(s[Len(s)]) THEN RStrip(SubSeq(s, 1, Len(s) - 1)) ELSE s

\* str.strip()
Strip(s) == RStrip(LStrip(s))

Encodable(c) == \A i \in 1..Len(c) : c[i] # "S"

\* compile(code, '<string>', 'exec') on a source of these characters: the
\* exception raised, for a SyntaxError with its lineno and offset.  The source
\* is encoded first; indented first statement: "unexpected indent" at the end
\* of the indentation; an opening parenthesis: "'(' was never closed" at the
\* last one; a name after a name: "invalid syntax" at the second name.
Compile(c) ==
    IF ~Encodable(c) THEN [raises |-> "UnicodeEncodeError"]
    ELSE IF Strip(c) = << >> THEN [raises |-> "none"]
    ELSE IF IsSpace(c[1])
    THEN [raises |-> "SyntaxError", lineno |-> 1,
          offset |-> Len(c) - Len(LStrip(c))]
    ELSE IF \E i \in 1..Len(c) : c[i] = "("
    THEN [raises |-> "SyntaxError", lineno |-> 1,
          offset |-> CHOOSE i \in 1..Len(c) :
                        c[i] = "(" /\ \A j \in (i + 1)..Len(c) : c[j] # "("]
    ELSE IF \E i \in 2..Len(c) : c[i] = "p" /\ IsSpace(c[i - 1])
    THEN [raises |-> "SyntaxError", lineno |-> 1,
          offset |-> CHOOSE i \in 2..Len(c) :
                        /\ c[i] = "p" /\ IsSpace(c[i - 1])
                        /\ \A j \in 2..(i - 1) : ~(c[j] = "p" /\ IsSpace(c[j - 1]))]
    ELSE [raises |-> "none"]

\* what the interpreter started on the file of source c can do: a source that
\* is no valid Python is never run, the interpreter writes the SyntaxError to
\* stderr and exits with code 1
ChildCan(c, no, ne, rc) ==
    Compile(c).raises = "none" \/ (no = 0 /\ ne > 0 /\ rc = 1)

\* ---------------------------------------------------------------- streams
Orig == [kind |-> "orig", of |-> 0]
Buf(t) == [kind |-> "buf", of |-> t]
Dead == [kind |-> "dead", of |-> 0]

\* --------------------------------------------------------------- children
NoProc ==
    [state |-> "none", reaped |-> FALSE, deadline |-> "off",
     stdout |-> << >>, stderr |-> << >>, returncode |-> 0]

VARIABLES
    pc,             \* where each request thread stands
    code,           \* the source of the request a thread serves
    tmp,            \* temp_file_path of the thread's execute call
    fs,             \* names of the temporary files that exist
    proc,           \* the child process of the thread's run
    outcome,        \* how subprocess.run ended: "none" (not yet), "Completed",
                    \* or the exception raised: "TimeoutExpired", "OSError",
                    \* "SubprocessError", "UnicodeDecodeError"
    sys_stdout,     \* the process-wide sys.stdout
    sys_stderr,     \* the process-wide sys.stderr
    old_stdout,     \* the stream redirect_stdout saved, per thread
    old_stderr,     \* the stream redirect_stderr saved, per thread
    output_buffer,  \* contents of the run's output_buffer
    error_buffer,   \* contents of the run's error_buffer
    result,         \* the dict execute returned
    response,       \* HTTP status of the thread's last response, 0 if none
    validation,     \* the last validate_code call of a thread: source and dict
    disk,           \* the file system the file manager works on: entry by path
    fm_call,        \* the last call of the file manager and how it ended
    interactive     \* the last execute_interactive call of a thread: source,
                    \* child and dict

\* what the execute request path leaves alone
elsewhere == << validation, disk, fm_call, interactive >>

vars == << pc, code, tmp, fs, proc, outcome, sys_stdout, sys_stderr, old_stdout,
           old_stderr, output_buffer, error_buffer, result, response,
           validation, disk, fm_call, interactive >>

\* ------------------------------------------------------------ file system
\* A path is the sequence of its components below "/"; ".." is kept as a
\* component, as pathlib keeps it.  The workspace is /ws.
workspace_dir == << "ws" >>

\* the names a component can be: "a.py" has an allowed suffix
PathNames == {"ws", "sub", "a.py", ".."}

DirEntry == [kind |-> "dir", content |-> ""]
FileEntry(content) == [kind |-> "file", content |-> content]

\* the workspace with one file and one directory, and one file beside it
InitialDisk ==
    (<< >> :> DirEntry) @@ (<< "ws" >> :> DirEntry)
        @@ (<< "ws", "a.py" >> :> FileEntry("old"))
        @@ (<< "ws", "sub" >> :> DirEntry)
        @@ (<< "a.py" >> :> FileEntry("old"))

NoCall == [op |-> "none", ok |-> TRUE, read |-> {}]

NoResult == [absent |-> TRUE]

Init ==
    /\ pc = [t \in Threads |-> "Idle"]
    /\ code = [t \in Threads |-> << >>]
    /\ tmp = [t \in Threads |-> NoPath]
    /\ fs = {}
    /\ proc = [t \in Threads |-> NoProc]
    /\ outcome = [t \in Threads |-> "none"]
    /\ sys_stdout = Orig
    /\ sys_stderr = Orig
    /\ old_stdout = [t \in Threads |-> Orig]
    /\ old_stderr = [t \in Threads |-> Orig]
    /\ output_buffer = [t \in Threads |-> << >>]
    /\ error_buffer = [t \in Threads |-> << >>]
    /\ result = [t \in Threads |-> NoResult]
    /\ response = [t \in Threads |-> 0]
    /\ validation = [t \in Threads |-> NoResult]
    /\ disk = InitialDisk
    /\ fm_call = NoCall
    /\ interactive = [t \in Threads |-> NoResult]

\* ------------------------------------------------------- CodeExecutor code
\* the test without strip(): `not code`
BlankNoStrip(c) == c = << >>

\* the test when execute asked the validator first and turned down what does
\* not compile
BlankOrInvalid(c) == Strip(c) = << >> \/ Compile(c).raises # "none"

\* `not code.strip()`
Blank(c) == Strip(c) = << >>

\* the dict returned for blank source
EmptyInputResult == [output |-> << >>, error |-> Some(Lit("No code provided"))]

\* combined[:self.max_output_size] + marker when combined is too long
Truncate(combined, marker) ==
    IF Len(combined) > max_output_size
    THEN Prefix(combined, max_output_size) \o marker
    ELSE combined

\* `x or y` on two strings
StrOr(x, y) == IF x # << >> THEN x ELSE y

\* what _run_code returns once subprocess.run has ended as o; cp is the
\* CompletedProcess, stdout and stderr the contents of the two StringIO buffers
RunCodeResult(o, cp, stdout, stderr) ==
    IF o = "Completed"
    THEN LET combined_output == Truncate(stdout \o cp.stdout, OutMarker)
             combined_error == Truncate(stderr \o cp.stderr, ErrMarker)
         IN  IF cp.returncode # 0
             THEN [output |-> combined_output,
                   error |-> Some(StrOr(combined_error, Lit("Code execution failed"))),
                   return_code |-> cp.returncode]
             ELSE [output |-> combined_output,
                   error |-> None,
                   return_code |-> cp.returncode]
    ELSE IF o = "TimeoutExpired"
    THEN [output |-> << >>,
          error |-> Some(Lit("Code execution timed out after 10 seconds"))]
    ELSE IF o = "SubprocessError"
    THEN [output |-> << >>, error |-> Some(Lit("Subprocess error: "))]
    ELSE [output |-> << >>, error |-> Some(Lit("Execution error: "))]

\* the child after Popen succeeded when run was given no timeout
SpawnedProcNoDeadline == [NoProc EXCEPT !.state = "running"]

\* the child after Popen succeeded: running, subprocess.run's deadline armed
SpawnedProc == [NoProc EXCEPT !.state = "running", !.deadline = "armed"]

\* the child after it ended by itself and communicate() reaped it
ExitedProc(out, err, rc) ==
    [state |-> "exited", reaped |-> TRUE, deadline |-> "armed",
     stdout |-> out, stderr |-> err, returncode |-> rc]

\* the deadline passed and the child was left alone: no kill, no wait
TimedOutProcNoKill(out, err) ==
    [state |-> "running", reaped |-> FALSE, deadline |-> "expired",
     stdout |-> out, stderr |-> err, returncode |-> 0]

\* the child after the deadline passed: process.kill(), process.wait()
TimedOutProc(out, err) ==
    [state |-> "killed", reaped |-> TRUE, deadline |-> "expired",
     stdout |-> out, stderr |-> err, returncode |-> -9]

\* one fixed name for every run, whatever exists
FreshNameFixed(files) == CHOOSE name \in TempNames : \A other \in TempNames : name <= other

\* the name NamedTemporaryFile gives the new file: a random name no existing
\* file has; names are interchangeable and the least unused one stands for it
FreshName(files) ==
    CHOOSE name \in TempNames \ files :
        \A other \in TempNames \ files : name <= other

\* the file is left where it is
UnlinkSkipped(files, path) == files

\* os.unlink(temp_file_path) in the finally clause
Unlink(files, path) == files \ {path}

\* a stream as it is named once the run owning buffer t has left its with block:
\* the StringIO of a finished run is read no more
Retire(s, t) == IF s = Buf(t) THEN Dead ELSE s

\* print(...) executed by a thread: the text goes to whatever sys.stdout is
Printed(bufs, u) ==
    IF sys_stdout.kind = "buf"
    THEN [bufs EXCEPT ![sys_stdout.of] = @ \o PrintText(u)]
    ELSE bufs

CanPrint ==
    sys_stdout.kind = "buf" => Len(output_buffer[sys_stdout.of]) < MaxBuffered

\* `if result.get('error')`
HasError(r) == r.error # None /\ r.error[1] # << >>

\* LlamaClient.get_error_fixes by what the collaborator replied
GetErrorFixes(reply) ==
    IF reply = "error" THEN << Lit("Error getting fixes: ") >>
    ELSE IF reply = "fixes" THEN << Lit("fix") >>
    ELSE << Lit("No fixes available") >>

\* what the collaborator replied: "fixes" text with lines, "empty" a body
\* without text, "error" no usable reply (connection error, timeout, HTTP
\* error status, body that is no JSON), "malformed" a JSON body of another
\* shape (null, a number, a string, a "response" that is no string)
LlmReplies == {"fixes", "empty", "error", "malformed"}

\* get_error_fixes raises: `"error" in response` on a body that is no
\* container (TypeError), text.split on a "response" that is no string
\* (AttributeError)
FixesRaise(reply) == reply = "malformed"

\* ---------------------------------------------------------------- actions
\* a thread takes a new request: the locals of its previous one are gone
Fresh(t, c) ==
    /\ pc[t] \in {"Idle", "Responded"}
    /\ code' = [code EXCEPT ![t] = c]
    /\ proc' = [proc EXCEPT ![t] = NoProc]
    /\ outcome' = [outcome EXCEPT ![t] = "none"]
    /\ output_buffer' = [output_buffer EXCEPT ![t] = << >>]
    /\ error_buffer' = [error_buffer EXCEPT ![t] = << >>]
    /\ UNCHANGED << sys_stdout, sys_stderr, old_stdout, old_stderr, elsewhere >>

\* app.execute_code: `if not code: return ..., 400`
RejectNoCode(t) ==
    /\ Fresh(t, << >>)
    /\ pc' = [pc EXCEPT ![t] = "Responded"]
    /\ response' = [response EXCEPT ![t] = 400]
    /\ result' = [result EXCEPT ![t] = NoResult]
    /\ tmp' = [tmp EXCEPT ![t] = NoPath]
    /\ UNCHANGED fs

\* execute: blank source returns at once
ExecuteEmpty(t, c) ==
    /\ c # << >>
    /\ Blank(c)
    /\ Fresh(t, c)
    /\ pc' = [pc EXCEPT ![t] = "Finalized"]
    /\ result' = [result EXCEPT ![t] = EmptyInputResult]
    /\ response' = [response EXCEPT ![t] = 0]
    /\ tmp' = [tmp EXCEPT ![t] = NoPath]
    /\ UNCHANGED fs

\* execute: NamedTemporaryFile(delete=False) creates a file under an unused
\* name, the source is written into it and the file is closed
ExecuteCreate(t, c) ==
    /\ c # << >>
    /\ ~Blank(c)
    /\ Encodable(c)
    /\ TempNames \ fs # {}
    /\ Fresh(t, c)
    /\ fs' = fs \cup {FreshName(fs)}
    /\ tmp' = [tmp EXCEPT ![t] = FreshName(fs)]
    /\ pc' = [pc EXCEPT ![t] = "Created"]
    /\ result' = [result EXCEPT ![t] = NoResult]
    /\ response' = [response EXCEPT ![t] = 0]

\* execute: temp_file.write(code) raises (UnicodeEncodeError for a source that
\* cannot be encoded, OSError when the device is full); the with block closes
\* the file and the exception leaves execute before the try statement
ExecuteWriteFault(t, c) ==
    /\ c # << >>
    /\ ~Blank(c)
    /\ TempNames \ fs # {}
    /\ Fresh(t, c)
    /\ fs' = fs \cup {FreshName(fs)}
    /\ tmp' = [tmp EXCEPT ![t] = NoPath]
    /\ pc' = [pc EXCEPT ![t] = "Escaped"]
    /\ result' = [result EXCEPT ![t] = NoResult]
    /\ response' = [response EXCEPT ![t] = 0]

\* the request is answered: the locals of the handler and of execute are gone
Answered(t) ==
    /\ pc' = [pc EXCEPT ![t] = "Responded"]
    /\ code' = [code EXCEPT ![t] = << >>]
    /\ tmp' = [tmp EXCEPT ![t] = NoPath]
    /\ proc' = [proc EXCEPT ![t] = NoProc]
    /\ outcome' = [outcome EXCEPT ![t] = "none"]
    /\ error_buffer' = [error_buffer EXCEPT ![t] = << >>]
    /\ UNCHANGED << fs, sys_stdout, sys_stderr, old_stdout, old_stderr,
                    elsewhere >>

\* app.execute_code: `except Exception` answers 500
HandlerCatch(t) ==
    /\ pc[t] = "Escaped"
    /\ Answered(t)
    /\ response' = [response EXCEPT ![t] = 500]
    /\ UNCHANGED << output_buffer, result >>

\* _run_code: the two buffers are created and the with statement installs them
EnterRedirect(t) ==
    /\ pc[t] = "Created"
    /\ pc' = [pc EXCEPT ![t] = "Spawning"]
    /\ output_buffer' = [output_buffer EXCEPT ![t] = << >>]
    /\ error_buffer' = [error_buffer EXCEPT ![t] = << >>]
    /\ old_stdout' = [old_stdout EXCEPT ![t] = sys_stdout]
    /\ old_stderr' = [old_stderr EXCEPT ![t] = sys_stderr]
    /\ sys_stdout' = Buf(t)
    /\ sys_stderr' = Buf(t)
    /\ UNCHANGED << code, tmp, fs, proc, outcome, result, response, elsewhere >>

\* subprocess.run: Popen started the child
Spawn(t) ==
    /\ pc[t] = "Spawning"
    /\ pc' = [pc EXCEPT ![t] = "Running"]
    /\ proc' = [proc EXCEPT ![t] = SpawnedProc]
    /\ UNCHANGED << code, tmp, fs, outcome, sys_stdout, sys_stderr, old_stdout,
                    old_stderr, output_buffer, error_buffer, result, response,
                    elsewhere >>

\* subprocess.run ended as o with child p: the with statement restores the
\* streams it saved, _run_code returns its dict, and the finally clause of
\* execute removes the file before the dict reaches the caller
LeaveRedirect(t, o, p) ==
    /\ pc' = [pc EXCEPT ![t] = "Finalized"]
    /\ outcome' = [outcome EXCEPT ![t] = o]
    /\ proc' = [proc EXCEPT ![t] = p]
    /\ sys_stderr' = Retire(old_stderr[t], t)
    /\ sys_stdout' = Retire(old_stdout[t], t)
    /\ old_stdout' = [u \in Threads |->
                        IF u = t THEN Orig ELSE Retire(old_stdout[u], t)]
    /\ old_stderr' = [u \in Threads |->
                        IF u = t THEN Orig ELSE Retire(old_stderr[u], t)]
    /\ result' = [result EXCEPT ![t] =
                    RunCodeResult(o, p, output_buffer[t], error_buffer[t])]
    /\ fs' = Unlink(fs, tmp[t])
    /\ UNCHANGED << code, tmp, output_buffer, error_buffer, response, elsewhere >>

\* Popen raised: OSError (no interpreter, no permission, no resources) or
\* SubprocessError
SpawnFail(t, e) ==
    /\ pc[t] = "Spawning"
    /\ e \in {"OSError", "SubprocessError"}
    /\ LeaveRedirect(t, e, NoProc)

\* the child ended by itself with exit code rc after writing out and err
ChildExit(t, no, ne, rc) ==
    /\ pc[t] = "Running"
    /\ ChildCan(code[t], no, ne, rc)
    /\ LeaveRedirect(t, "Completed",
           ExitedProc(ChildText(t, "child.stdout", no),
                      ChildText(t, "child.stderr", ne), rc))

\* the child ended by itself, but what it wrote is no valid UTF-8:
\* communicate() raises UnicodeDecodeError after reaping the child
CollectFail(t, rc) ==
    /\ pc[t] = "Running"
    /\ Compile(code[t]).raises = "none"
    /\ LeaveRedirect(t, "UnicodeDecodeError", ExitedProc(<< >>, << >>, rc))

\* the deadline passes while the child, having written out and err, still runs
Timeout(t, no, ne) ==
    /\ pc[t] = "Running"
    /\ proc[t].deadline = "armed"
    /\ Compile(code[t]).raises = "none" \/ no = 0
    /\ LeaveRedirect(t, "TimeoutExpired",
           TimedOutProc(ChildText(t, "child.stdout", no),
                        ChildText(t, "child.stderr", ne)))

\* app.execute_code: a result without error is answered as it is
RespondPlain(t) ==
    /\ pc[t] = "Finalized"
    /\ ~HasError(result[t])
    /\ Answered(t)
    /\ response' = [response EXCEPT ![t] = 200]
    /\ output_buffer' = [output_buffer EXCEPT ![t] = << >>]
    /\ UNCHANGED result

\* app.execute_code: a result with an error gets the collaborator's fixes;
\* _make_request prints when the request to the collaborator fails
RespondWithFixes(t, reply) ==
    /\ pc[t] = "Finalized"
    /\ HasError(result[t])
    /\ reply \in LlmReplies
    /\ ~FixesRaise(reply)
    /\ reply = "error" => CanPrint
    /\ output_buffer' =
           [(IF reply = "error" THEN Printed(output_buffer, t) ELSE output_buffer)
               EXCEPT ![t] = << >>]
    /\ result' = [result EXCEPT ![t] =
                    [k \in DOMAIN @ \cup {"suggestions"} |->
                        IF k = "suggestions" THEN GetErrorFixes(reply) ELSE @[k]]]
    /\ Answered(t)
    /\ response' = [response EXCEPT ![t] = 200]

\* app.execute_code: get_error_fixes raised, `except Exception` answers 500
\* and the result of the run is dropped
SuggestFault(t, reply) ==
    /\ pc[t] = "Finalized"
    /\ HasError(result[t])
    /\ reply \in LlmReplies
    /\ FixesRaise(reply)
    /\ Answered(t)
    /\ response' = [response EXCEPT ![t] = 500]
    /\ result' = [result EXCEPT ![t] = NoResult]
    /\ output_buffer' = [output_buffer EXCEPT ![t] = << >>]

ChildLens == 0..MaxChildOut
\* what a child has written to a stream when the deadline passes: nothing yet,
\* or something
PartialLens == {0, 1}
ExitCodes == {0, 1}

Next ==
    \E t \in Threads :
        \/ RejectNoCode(t)
        \/ \E c \in Codes : ExecuteEmpty(t, c)
        \/ \E c \in Codes : ExecuteCreate(t, c)
        \/ \E c \in Codes : ExecuteWriteFault(t, c)
        \/ HandlerCatch(t)
        \/ EnterRedirect(t)
        \/ Spawn(t)
        \/ \E e \in {"OSError", "SubprocessError"} : SpawnFail(t, e)
        \/ \E no \in ChildLens, ne \in ChildLens, rc \in ExitCodes :
                ChildExit(t, no, ne, rc)
        \/ \E rc \in ExitCodes : CollectFail(t, rc)
        \/ \E no \in PartialLens, ne \in PartialLens : Timeout(t, no, ne)
        \/ RespondPlain(t)
        \/ \E reply \in LlmReplies : RespondWithFixes(t, reply)
        \/ \E reply \in LlmReplies : SuggestFault(t, reply)

Spec == Init /\ [][Next]_vars

\* The interpreter keeps switching between its threads, so a thread that can
\* go on inside execute does go on, and the clock of subprocess.run runs: the
\* deadline of a child that is still running passes.  Nothing makes a child
\* end by itself.
Fairness ==
    \A t \in Threads :
        /\ WF_vars(EnterRedirect(t))
        /\ WF_vars(Spawn(t) \/ \E e \in {"OSError", "SubprocessError"} : SpawnFail(t, e))
        /\ WF_vars(\E no \in PartialLens, ne \in PartialLens : Timeout(t, no, ne))

FairSpec == Spec /\ Fairness

\* ------------------------------------------------------------ validate_code
\* validate_code without the position of the error
ValidateCodeNoPosition(c) ==
    IF Compile(c).raises = "none" THEN [valid |-> TRUE, error |-> None]
    ELSE [valid |-> FALSE, error |-> Some(Lit("Syntax error: "))]

\* CodeExecutor.validate_code
ValidateCode(c) ==
    IF Compile(c).raises = "none" THEN [valid |-> TRUE, error |-> None]
    ELSE IF Compile(c).raises = "SyntaxError"
    THEN [valid |-> FALSE, error |-> Some(Lit("Syntax error: ")),
          line |-> Compile(c).lineno, offset |-> Compile(c).offset]
    ELSE [valid |-> FALSE, error |-> Some(Lit("Validation error: "))]

\* the sources handed to validate_code
ValCodes == UNION { [1..n -> CodeChars] : n \in 0..MaxCodeLen }

\* a thread calls validate_code(c)
Validate(t, c) ==
    /\ validation' = [validation EXCEPT ![t] = [code |-> c, result |-> ValidateCode(c)]]
    /\ UNCHANGED << pc, code, tmp, fs, proc, outcome, sys_stdout, sys_stderr,
                    old_stdout, old_stderr, output_buffer, error_buffer, result,
                    response, disk, fm_call, interactive >>

NextValidate == \E t \in Threads, c \in ValCodes : Validate(t, c)

SpecValidate == Init /\ [][NextValidate]_vars

\* -------------------------------------------------------------- FileManager
\* the path arguments: relative or absolute, of up to MaxPathLen components
PathArgs ==
    [abs : BOOLEAN, parts : UNION { [1..n -> PathNames] : n \in 0..MaxPathLen }]

\* self.workspace_dir / file_path: an absolute file_path replaces the workspace
Join(arg) == IF arg.abs THEN arg.parts ELSE workspace_dir \o arg.parts

\* Path.parent: the path without its last component
Parent(p) == IF p = << >> THEN << >> ELSE SubSeq(p, 1, Len(p) - 1)

\* no entry: what a path that cannot be walked resolves to
Nowhere == << "" >>

\* the entry the operating system reaches from cur along rest: every component
\* passed must be a directory, ".." steps to the parent
RECURSIVE Walk(_, _, _)
Walk(d, cur, rest) ==
    IF rest = << >> THEN cur
    ELSE IF cur \notin DOMAIN d \/ d[cur].kind # "dir" THEN Nowhere
    ELSE IF Head(rest) = ".." THEN Walk(d, Parent(cur), Tail(rest))
    ELSE Walk(d, cur \o << Head(rest) >>, Tail(rest))

Resolve(d, p) == Walk(d, << >>, p)

\* Path.exists(), Path.is_file()
Exists(d, p) == Resolve(d, p) \in DOMAIN d
IsFile(d, p) == Exists(d, p) /\ d[Resolve(d, p)].kind = "file"

\* _is_safe_file: the suffix of the last component is an allowed one
IsSafeFile(p) == p # << >> /\ p[Len(p)] = "a.py"

Put(d, p, entry) == [q \in DOMAIN d \cup {p} |-> IF q = p THEN entry ELSE d[q]]

\* Path.mkdir(parents=True, exist_ok=True) along rest from cur: every missing
\* component is created as a directory; a component that is a file ends it
RECURSIVE MkdirParents(_, _, _)
MkdirParents(d, cur, rest) ==
    IF cur \in DOMAIN d /\ d[cur].kind = "file" THEN [disk |-> d, ok |-> FALSE]
    ELSE LET made == IF cur \in DOMAIN d THEN d ELSE Put(d, cur, DirEntry)
         IN  IF rest = << >> THEN [disk |-> made, ok |-> TRUE]
             ELSE IF Head(rest) = ".."
             THEN MkdirParents(made, Parent(cur), Tail(rest))
             ELSE MkdirParents(made, cur \o << Head(rest) >>, Tail(rest))

IsPrefix(p, q) == Len(p) <= Len(q) /\ SubSeq(q, 1, Len(p)) = p

\* the entries left when everything below r is removed, and r too when gone
Remove(d, r, gone) ==
    [q \in {x \in DOMAIN d : ~IsPrefix(r, x) \/ (x = r /\ ~gone)} |-> d[q]]

\* FileManager.read_file
ReadFile(arg) ==
    LET target == Join(arg)
        ok == IsFile(disk, target) /\ IsSafeFile(target)
    IN  /\ fm_call' = [op |-> "read", ok |-> ok,
                       read |-> IF ok THEN {Resolve(disk, target)} ELSE {}]
        /\ UNCHANGED << disk, pc, code, tmp, fs, proc, outcome, sys_stdout,
                        sys_stderr, old_stdout, old_stderr, output_buffer,
                        error_buffer, result, response, validation,
                        interactive >>

\* FileManager.save_file: the parent directories are made before the suffix is
\* checked; open(target, 'w') creates the file or replaces its content
SaveFile(arg) ==
    LET target == Join(arg)
        made == MkdirParents(disk, << >>, Parent(target))
        r == Resolve(made.disk, target)
        ok == /\ made.ok
              /\ IsSafeFile(target)
              /\ r # Nowhere
              /\ r \in DOMAIN made.disk => made.disk[r].kind = "file"
    IN  /\ fm_call' = [op |-> "save", ok |-> ok, read |-> {}]
        /\ disk' = IF ok THEN Put(made.disk, r, FileEntry("new")) ELSE made.disk
        /\ UNCHANGED << pc, code, tmp, fs, proc, outcome, sys_stdout,
                        sys_stderr, old_stdout, old_stderr, output_buffer,
                        error_buffer, result, response, validation,
                        interactive >>

\* FileManager.delete_file: unlink for a file, shutil.rmtree for a directory;
\* rmtree empties the directory the path resolves to and then calls
\* os.rmdir(path), which fails for "/" and for a path that ends in ".."
DeleteFile(arg) ==
    LET target == Join(arg)
        r == Resolve(disk, target)
        allowed == Exists(disk, target) /\ target # workspace_dir
        rmdir == r # << >> /\ target[Len(target)] # ".."
    IN  /\ fm_call' = [op |-> "delete",
                       ok |-> allowed /\ (IsFile(disk, target) \/ rmdir),
                       read |-> {}]
        /\ disk' = IF ~allowed THEN disk
                   ELSE IF IsFile(disk, target) THEN Remove(disk, r, TRUE)
                   ELSE Remove(disk, r, rmdir)
        /\ UNCHANGED << pc, code, tmp, fs, proc, outcome, sys_stdout,
                        sys_stderr, old_stdout, old_stderr, output_buffer,
                        error_buffer, result, response, validation,
                        interactive >>

NextFiles ==
    \E arg \in PathArgs :
        \/ ReadFile(arg)
        \/ SaveFile(arg)
        \/ DeleteFile(arg)

SpecFiles == Init /\ [][NextFiles]_vars

\* ------------------------------------------------------ execute_interactive
\* subprocess.Popen(..., timeout=self.timeout): Popen takes no timeout
\* argument, so the call raises TypeError before any process is started
PopenInteractive == [raises |-> "TypeError", child |-> NoProc]

\* what execute_interactive returns once its try block has ended as o with
\* child cp
InteractiveResult(o, cp) ==
    IF o = "Completed"
    THEN IF cp.returncode # 0
         THEN [output |-> cp.stdout,
               error |-> Some(StrOr(cp.stderr, Lit("Interactive execution failed"))),
               return_code |-> cp.returncode]
         ELSE [output |-> cp.stdout, error |-> None,
               return_code |-> cp.returncode]
    ELSE IF o = "TimeoutExpired"
    THEN [output |-> << >>,
          error |-> Some(Lit("Interactive execution timed out after 10 seconds"))]
    ELSE [output |-> << >>, error |-> Some(Lit("Interactive execution error: "))]

\* a thread calls execute_interactive(c)
ExecuteInteractive(t, c) ==
    /\ interactive' = [interactive EXCEPT ![t] =
                        [code |-> c, child |-> PopenInteractive.child,
                         result |-> InteractiveResult(PopenInteractive.raises,
                                                      PopenInteractive.child)]]
    /\ UNCHANGED << pc, code, tmp, fs, proc, outcome, sys_stdout, sys_stderr,
                    old_stdout, old_stderr, output_buffer, error_buffer, result,
                    response, validation, disk, fm_call >>

NextInteractive == \E t \in Threads, c \in ValCodes : ExecuteInteractive(t, c)

SpecInteractive == Init /\ [][NextInteractive]_vars

\* ----------------------------------------------------------------- claims
\* The claims speak of a result as the caller of execute sees it: the result
\* of thread t is the one in result[t] while pc[t] = "Finalized".
Returned(t) == pc[t] = "Finalized"

HasExitCode(r) == "return_code" \in DOMAIN r

\* the first cap characters of text followed by the marker when text is longer
\* than cap, text itself otherwise
Capped(text, cap, marker) ==
    IF Len(text) <= cap THEN text
    ELSE [i \in 1..(cap + Len(marker)) |->
            IF i <= cap THEN text[i] ELSE marker[i - cap]]

TimeoutMessage == Lit("Code execution timed out after 10 seconds")

\* the error kinds a result falls into
IsKind(r, k) ==
    IF k = "None" THEN r.error = << >>
    ELSE IF k = "ProcessFailure"
    THEN HasExitCode(r) /\ r.return_code # 0 /\ r.error # << >>
    ELSE IF k = "Timeout" THEN ~HasExitCode(r) /\ r.error = << TimeoutMessage >>
    ELSE IF k = "EmptyInput"
    THEN ~HasExitCode(r) /\ r.error = << Lit("No code provided") >>
    ELSE /\ ~HasExitCode(r)
         /\ r.error \in { << Lit("Subprocess error: ") >>,
                          << Lit("Execution error: ") >> }

ErrorKinds == {"None", "Timeout", "ProcessFailure", "SpawnFailure", "EmptyInput"}

KindsOf(r) == {k \in ErrorKinds : IsKind(r, k)}

WhitespaceOnly(c) == \A i \in 1..Len(c) : c[i] = " "

\* C1: execute returns a result for every source and lets no exception escape
\* (a failure to write the temporary file included), and the result falls
\* into exactly one error kind.
C1_AlwaysAResult ==
    \A t \in Threads :
        /\ pc[t] # "Escaped"
        /\ Returned(t) => Cardinality(KindsOf(result[t])) = 1

\* C2: for empty or whitespace-only source execute returns the EmptyInput
\* result (empty output, error 'No code provided', no return_code), and that
\* call creates no temporary file and spawns no child.
C2_EmptyInput ==
    /\ [](\A t \in Threads :
            Returned(t) /\ WhitespaceOnly(code[t]) =>
                /\ result[t].output = << >>
                /\ result[t].error = << Lit("No code provided") >>
                /\ ~HasExitCode(result[t])
                /\ tmp[t] = NoPath
                /\ proc[t].state = "none")
    /\ [][\A t \in Threads :
            ~Returned(t) /\ Returned(t)' /\ WhitespaceOnly(code'[t]) =>
                fs' = fs /\ pc[t] \in {"Idle", "Responded"}]_vars

C2_Witness ==
    \E t \in Threads :
        /\ Returned(t)
        /\ code[t] = << " ", " " >>
        /\ result[t].error = << Lit("No code provided") >>

\* C3: whenever no execute call is in progress, no temporary file exists: every
\* exit path of execute (a fault while the source is written included) has
\* removed the file of its run.
C3_NoArtifactLeft ==
    (\A t \in Threads : pc[t] \in {"Idle", "Responded", "Finalized", "Escaped"})
        => fs = {}

\* C4: when execute returns a result, the child of that run is not running:
\* it ended by itself and was reaped, or the timeout fired and it was killed
\* and reaped, or it was never spawned.
C4_NoChildAlive ==
    \A t \in Threads :
        Returned(t) =>
            /\ proc[t].state \in {"none", "exited", "killed"}
            /\ proc[t].state # "none" => proc[t].reaped
            /\ outcome[t] = "TimeoutExpired" =>
                    proc[t].state = "killed" /\ proc[t].reaped

C4_Witness ==
    \E t \in Threads :
        /\ Returned(t)
        /\ outcome[t] = "TimeoutExpired"
        /\ result[t].error = << TimeoutMessage >>
        /\ proc[t].state = "killed"

\* C5: a run that hits the timeout returns a Timeout result without exit code
\* whose output is what had been captured before the deadline, cut at the cap.
C5_TimeoutKeepsPartialOutput ==
    \A t \in Threads :
        Returned(t) /\ outcome[t] = "TimeoutExpired" =>
            /\ IsKind(result[t], "Timeout")
            /\ result[t].output =
                 Capped(output_buffer[t] \o proc[t].stdout, max_output_size, OutMarker)

\* C6: of a run whose child ended, each stream is returned cut at the cap on
\* its own: the first max_output_size characters and the marker once when the
\* captured text is longer, the captured text unchanged otherwise; the exit
\* code is the child's.
C6_StreamsTruncated ==
    \A t \in Threads :
        Returned(t) /\ outcome[t] = "Completed" =>
            LET out == output_buffer[t] \o proc[t].stdout
                err == error_buffer[t] \o proc[t].stderr
            IN  /\ result[t].output = Capped(out, max_output_size, OutMarker)
                /\ err # << >> =>
                     result[t].error = << Capped(err, max_output_size, ErrMarker) >>
                /\ result[t].return_code = proc[t].returncode

\* C7: when the child ended by itself, exit code 0 gives error None; another
\* exit code gives ProcessFailure with the captured stderr as message, or
\* 'Code execution failed' when that is empty, never an empty message.
C7_ExitCodeDecidesError ==
    \A t \in Threads :
        Returned(t) /\ proc[t].state = "exited" =>
            /\ proc[t].returncode = 0 => result[t].error = << >>
            /\ proc[t].returncode # 0 =>
                 /\ IsKind(result[t], "ProcessFailure")
                 /\ result[t].error[1] # << >>
                 /\ result[t].error[1] =
                      LET err == Capped(error_buffer[t] \o proc[t].stderr,
                                        max_output_size, ErrMarker)
                      IN  IF err # << >> THEN err ELSE Lit("Code execution failed")

\* C8: a result holds an exit code exactly when the child was spawned and
\* ended by itself.
C8_ExitCodeIffChildEnded ==
    \A t \in Threads :
        Returned(t) => (HasExitCode(result[t]) <=> proc[t].state = "exited")

\* C9: when the child cannot be spawned, execute returns a SpawnFailure result
\* (a message, empty output, no exit code) without a child and without the
\* deadline having been armed, and the file of the run is removed.
C9_SpawnFailure ==
    /\ [](\A t \in Threads :
            Returned(t) /\ outcome[t] \in {"OSError", "SubprocessError"} =>
                /\ IsKind(result[t], "SpawnFailure")
                /\ result[t].output = << >>
                /\ result[t].error[1] # << >>
                /\ proc[t].state = "none"
                /\ proc[t].deadline = "off")
    /\ [][\A t \in Threads :
            Returned(t)' /\ outcome'[t] \in {"OSError", "SubprocessError"}
                /\ pc[t] = "Spawning" =>
                    tmp[t] \in fs /\ tmp[t] \notin fs']_vars

C9_Witness ==
    \E t \in Threads :
        /\ Returned(t)
        /\ outcome[t] = "OSError"
        /\ tmp[t] # NoPath
        /\ IsKind(result[t], "SpawnFailure")

\* C10: the output and error text of a result hold only text the child of that
\* run wrote (and the literals of the engine): no text another thread printed
\* while the run was in progress.
OwnText(text, t) ==
    \A i \in 1..Len(text) :
        /\ text[i].by # "print"
        /\ text[i].by \in {"child.stdout", "child.stderr"} => text[i].of = t

C10_OnlyOwnOutput ==
    \A t \in Threads :
        Returned(t) =>
            /\ OwnText(result[t].output, t)
            /\ result[t].error # << >> => OwnText(result[t].error[1], t)

\* C11: runs that overlap hold distinct temporary files, the file of a run in
\* progress exists until that run removes it itself, and a run in progress can
\* always take its next step whatever the other runs are doing.
InProgress(t) == pc[t] \in {"Created", "Spawning", "Running"}

C11_RunsIsolated ==
    \A t \in Threads :
        InProgress(t) =>
            /\ tmp[t] \in fs
            /\ \A u \in Threads \ {t} : InProgress(u) => tmp[u] # tmp[t]
            /\ pc[t] = "Created" => ENABLED EnterRedirect(t)
            /\ pc[t] = "Spawning" => ENABLED Spawn(t)
            /\ pc[t] = "Running" => ENABLED Timeout(t, 0, 0)

C11_Witness ==
    \E t, u \in Threads :
        /\ pc[t] = "Running"
        /\ Returned(u)
        /\ tmp[u] \notin {NoPath, tmp[t]}
        /\ tmp[t] \in fs

\* C12 as stated: every execute call on a non-blank source spawns exactly one
\* child, never none, and a source with a syntax error comes back as a
\* ProcessFailure of its child.
C12_ExactlyOneChild ==
    \A t \in Threads :
        Returned(t) /\ ~WhitespaceOnly(code[t]) =>
            /\ proc[t].state # "none"
            /\ Compile(code[t]).raises = "SyntaxError" =>
                    IsKind(result[t], "ProcessFailure")

\* C12 amended: execute never asks the validator and never retries.  A call on
\* a non-blank source that returns has spawned one child unless the spawn
\* itself failed, no call can spawn once it has a child or has returned, and a
\* source with a syntax error whose child ended by itself comes back as a
\* ProcessFailure holding what the child wrote to stderr.
C12_OneSpawnNoValidator ==
    \A t \in Threads :
        /\ Returned(t) /\ ~WhitespaceOnly(code[t]) =>
                (proc[t].state = "none" <=>
                    outcome[t] \in {"OSError", "SubprocessError"})
        /\ Returned(t) \/ proc[t].state # "none" => ~ENABLED Spawn(t)
        /\ Returned(t) /\ Compile(code[t]).raises = "SyntaxError"
                /\ outcome[t] = "Completed" =>
                    /\ IsKind(result[t], "ProcessFailure")
                    /\ result[t].error =
                          << Capped(error_buffer[t] \o proc[t].stderr,
                                    max_output_size, ErrMarker) >>

C12_Witness ==
    \E t \in Threads :
        /\ Returned(t)
        /\ code[t] = << "(" >>
        /\ proc[t].state = "exited"
        /\ IsKind(result[t], "ProcessFailure")

\* C13 as stated: every validate_code result with valid = false carries a
\* message together with the line and the column of the error.
Validated(t) == validation[t] # NoResult

C13_InvalidHasPosition ==
    \A t \in Threads :
        Validated(t) /\ ~validation[t].result.valid =>
            /\ validation[t].result.error # None
            /\ {"line", "offset"} \subseteq DOMAIN validation[t].result

\* C13 amended: every validate_code result with valid = false carries a
\* message; it carries line and offset as compile reported them exactly when
\* compile raised a SyntaxError, and only the message after any other
\* exception.  validate_code spawns nothing and leaves the engine as it was.
C13_InvalidHasMessage ==
    /\ \A t \in Threads :
          Validated(t) =>
            LET r == validation[t].result
                e == Compile(validation[t].code)
            IN  /\ r.valid <=> e.raises = "none"
                /\ ~r.valid => r.error # None /\ r.error[1] # << >>
                /\ e.raises = "SyntaxError" =>
                      /\ {"line", "offset"} \subseteq DOMAIN r
                      /\ r.line = e.lineno /\ r.offset = e.offset
                /\ e.raises # "SyntaxError" => DOMAIN r = {"valid", "error"}
    /\ fs = {}
    /\ \A t \in Threads : proc[t] = NoProc /\ pc[t] = "Idle"
    /\ sys_stdout = Orig /\ sys_stderr = Orig

C13_Witness ==
    \E t, u \in Threads :
        /\ Validated(t) /\ Validated(u)
        /\ validation[t].code = << "p", "(" >>
        /\ validation[t].result.offset = 2
        /\ validation[u].code = << "S" >>
        /\ ~validation[u].result.valid

\* C14: the handler attaches suggestions exactly when the result execute
\* returned has an error, attaching leaves output, error and return_code as
\* they were, and the result execute returned is not changed afterwards.
Answers(t) == Returned(t) /\ pc'[t] = "Responded" /\ response'[t] = 200

C14_ResultLeftAlone ==
    [][\A t \in Threads :
        Answers(t) =>
            /\ "suggestions" \in DOMAIN result'[t] <=> result[t].error # None
            /\ \A k \in DOMAIN result[t] : result'[t][k] = result[t][k]
            /\ result'[t] = result[t]]_vars

\* C15: whatever the collaborator does (no reply, an error status, a body that
\* cannot be parsed, a body of an unexpected shape), the request whose run
\* returned a result is answered with success = true and that result, the
\* suggestions of a failed collaborator being at most one string.
C15_CollaboratorNeverFaults ==
    [][\A t \in Threads :
        Returned(t) /\ pc'[t] = "Responded" =>
            /\ response'[t] = 200
            /\ result'[t] # NoResult
            /\ \A k \in DOMAIN result[t] : result'[t][k] = result[t][k]
            /\ "suggestions" \in DOMAIN result'[t] =>
                    Len(result'[t].suggestions) <= 1]_vars

\* C16: read_file, save_file and delete_file read, create, change and remove
\* only entries inside the workspace directory, whatever the path argument.
Inside(p) == IsPrefix(workspace_dir, p)

C16_OnlyInsideWorkspace ==
    [][/\ \A p \in fm_call'.read : Inside(p)
       /\ \A p \in DOMAIN disk \cup DOMAIN disk' :
            ~Inside(p) =>
                /\ p \in DOMAIN disk /\ p \in DOMAIN disk'
                /\ disk'[p] = disk[p]]_vars

\* C17: a run moves through Created, Spawning, Running and then one of
\* Completed, TimedOut, SpawnFailed into Finalized, in this order only; the
\* temporary file is removed on entry to Finalized whichever branch was taken,
\* Finalized is left for no other state of the run, and every run that began
\* produces its one result.
SpawnFailed(o) == o \in {"OSError", "SubprocessError", "UnicodeDecodeError"}

RunStep(t) ==
    \/ pc'[t] = pc[t] /\ outcome'[t] = outcome[t]
    \/ pc[t] \in {"Idle", "Responded"} /\ pc'[t] \in {"Created", "Responded"}
    \/ pc[t] \in {"Idle", "Responded"} /\ Returned(t)' /\ tmp'[t] = NoPath
    \/ pc[t] = "Created" /\ pc'[t] = "Spawning"
    \/ pc[t] = "Spawning" /\ pc'[t] = "Running"
    \/ pc[t] = "Spawning" /\ Returned(t)' /\ outcome'[t] \in {"OSError", "SubprocessError"}
    \/ pc[t] = "Running" /\ Returned(t)'
            /\ (outcome'[t] \in {"Completed", "TimeoutExpired"} \/ SpawnFailed(outcome'[t]))
    \/ Returned(t) /\ pc'[t] = "Responded"

C17_StateOrder ==
    [][\A t \in Threads :
        /\ RunStep(t)
        /\ ~Returned(t) /\ Returned(t)' =>
              /\ result'[t] # NoResult
              /\ tmp[t] # NoPath => tmp[t] \notin fs']_vars

\* C18: every execute call that is under way returns: it waits for nothing
\* but the end of its child or the deadline, so a run whose child never ends
\* by itself returns too, and what it returns is the Timeout result.
C18_ExecuteReturns ==
    /\ \A t \in Threads : InProgress(t) ~> Returned(t)
    /\ [](\A t \in Threads :
            Returned(t) /\ proc[t].state = "killed" => IsKind(result[t], "Timeout"))

C18_Witness ==
    \E t \in Threads :
        /\ Returned(t)
        /\ proc[t].state = "killed"
        /\ proc[t].stdout # << >>
        /\ IsKind(result[t], "Timeout")

\* C19: the result of a run whose child ended by itself reports what the child
\* wrote to stderr, whatever the exit code: the error of the result holds
\* text of that child's stderr.
C19_StderrReported ==
    \A t \in Threads :
        Returned(t) /\ proc[t].state = "exited" /\ proc[t].stderr # << >> =>
            /\ result[t].error # None
            /\ \E i \in 1..Len(result[t].error[1]) :
                    /\ result[t].error[1][i].by = "child.stderr"
                    /\ result[t].error[1][i].of = t

\* C20: once no execute call is under way, sys.stdout and sys.stderr are the
\* streams they were before the calls began.
C20_StreamsRestored ==
    (\A t \in Threads : ~InProgress(t)) =>
        sys_stdout = Orig /\ sys_stderr = Orig

\* C21: execute_interactive has spawned one child for the source when it
\* returns, it returns the child's output with the exit code when the child
\* ended by itself and the timeout error when the child was terminated, and
\* the child is not running after the call returned.
C21_InteractiveChild ==
    \A t \in Threads :
        interactive[t] # NoResult =>
            LET child == interactive[t].child
                r == interactive[t].result
            IN  /\ child.state \in {"exited", "killed"}
                /\ child.state = "exited" =>
                      HasExitCode(r) /\ r.output = child.stdout
                /\ child.state = "killed" =>
                      r.error = << Lit("Interactive execution timed out after 10 seconds") >>

\* C22: a delete_file call whose path resolves to the workspace root fails,
\* and the workspace root and everything in it are there afterwards as before.
C22_RootNeverDeleted ==
    [][\A arg \in PathArgs :
        DeleteFile(arg) /\ Resolve(disk, Join(arg)) = workspace_dir
            /\ workspace_dir \in DOMAIN disk =>
                /\ ~fm_call'.ok
                /\ \A p \in DOMAIN disk :
                      Inside(p) => p \in DOMAIN disk' /\ disk'[p] = disk[p]]_vars

====
